---- MODULE Spec2Model ----
(***************************************************************************)
(* httrs: a terminal HTTP GET tool (src/src/main.rs).                      *)
(*                                                                         *)
(* The model follows main() and run_app() step by step: terminal setup,    *)
(* the draw / read / dispatch loop over the App struct, the awaited        *)
(* request of the Enter handler, and the terminal restoration.  Text is    *)
(* a sequence of one-character strings.                                    *)
(***************************************************************************)
EXTENDS Integers, Sequences, FiniteSets, TLC

VARIABLES
    pc,             \* position of main()/run_app()
    input_mode,     \* App.input_mode
    url,            \* App.url
    response,       \* App.response
    logs,           \* App.logs
    current_window, \* App.current_window
    event,          \* the event the last event::read() returned
    target,         \* new_url of the get_request call in flight
    reply,          \* what the request in flight came back with
    nreq,           \* number of GET requests handed to reqwest::get
    res,            \* main's `res`: the result of run_app
    rawMode,        \* terminal is in raw mode
    altScreen,      \* terminal shows the alternate screen
    mouseCapture,   \* mouse capture is enabled
    restored,       \* restoration commands performed so far, in order
    printed,        \* the error's debug text was printed (line 67)
    frame,          \* what the last successful terminal.draw put on the screen
    drawn           \* terminal.draw calls completed since the last event::read

vars == <<pc, input_mode, url, response, logs, current_window, event, target,
          reply, nreq, res, rawMode, altScreen, mouseCapture, restored, printed,
          frame, drawn>>

app == <<input_mode, url, response, logs, current_window>>
net == <<target, reply, nreq>>
term == <<rawMode, altScreen, mouseCapture, restored, printed>>

(***************************************************************************)
(* Bounds of the exploration.                                              *)
(***************************************************************************)
\* free typing (any character of FreeChars) stops at this url length
MaxUrlLen == 2
\* Enter is pressed at most this many times
MaxRequests == 2

(***************************************************************************)
(* Program constants.                                                      *)
(***************************************************************************)
PanelCount == 5
FirstWindow == 1

Https == <<"h", "t", "t", "p", "s", ":", "/", "/">>
Http == <<"h", "t", "t", "p">>
HttpScheme == <<"h", "t", "t", "p", ":", "/", "/">>
LogStart == "Fetching results..."
LogDone == "Done"

(***************************************************************************)
(* The texts the user types in full (besides free typing).                 *)
(***************************************************************************)
ExampleCom == <<"e", "x", "a", "m", "p", "l", "e", ".", "c", "o", "m">>
HttpBin == <<"h", "t", "t", "p", "b", "i", "n", ".", "o", "r", "g">>
TypedUrls == {ExampleCom, HttpScheme \o ExampleCom, Https \o ExampleCom, HttpBin}
FreeChars == {"i", "q", "x"}

Prefixes == UNION {{SubSeq(w, 1, n) : n \in 0..Len(w)} : w \in TypedUrls}
WordChars == UNION {{w[k] : k \in 1..Len(w)} : w \in TypedUrls}
Chars == FreeChars \cup WordChars

\* the character c can be typed after url within the explored texts
Typable(u, c) ==
    \/ Append(u, c) \in Prefixes
    \/ c \in FreeChars /\ Len(u) < MaxUrlLen

\* key codes: a character is itself; the others are named
SpecialKeys == {"Enter", "Tab", "Esc", "Backspace", "F1"}

(***************************************************************************)
(* get_request: the request target (lines 240-245).                        *)
(***************************************************************************)
StartsWith(s, p) == Len(s) >= Len(p) /\ SubSeq(s, 1, Len(p)) = p

NewUrl(u) == IF ~StartsWith(u, Http) THEN Https \o u ELSE u

NoTarget == <<>>

(***************************************************************************)
(* get_request: jsonxf's pretty printer applied to the body (lines         *)
(* 249-253): two-space indent, "\n" line separator, one space after ':'.   *)
(* The formatter walks the text once, keeping in_string, in_backslash,     *)
(* depth, empty (just after an opening bracket) and first.                 *)
(***************************************************************************)
Quote == "\""
Backslash == "\\"
Whitespace == {" ", "\n", "\r", "\t"}

RECURSIVE Indent(_)
Indent(d) == IF d = 0 THEN <<>> ELSE <<" ", " ">> \o Indent(d - 1)

NewLine(d) == <<"\n">> \o Indent(d)

FormatStart == [in_string |-> FALSE, in_backslash |-> FALSE, depth |-> 0,
                empty |-> FALSE, first |-> TRUE]

\* one character b in formatter state st: <<new state, text written>>
FormatChar(st, b) ==
    IF st.in_string THEN
        IF st.in_backslash THEN <<[st EXCEPT !.in_backslash = FALSE], <<b>>>>
        ELSE IF b = Quote THEN <<[st EXCEPT !.in_string = FALSE], <<b>>>>
        ELSE IF b = Backslash THEN <<[st EXCEPT !.in_backslash = TRUE], <<b>>>>
        ELSE <<st, <<b>>>>
    ELSE IF b \in Whitespace THEN <<st, <<>>>>
    ELSE IF b \in {"[", "{"} THEN
        <<[st EXCEPT !.first = FALSE, !.depth = st.depth + 1, !.empty = TRUE],
          IF st.first THEN <<b>>
          ELSE IF st.empty THEN NewLine(st.depth) \o <<b>>
          ELSE IF st.depth = 0 THEN <<"\n", b>>
          ELSE <<b>>>>
    ELSE IF b \in {"]", "}"} THEN
        LET d == IF st.depth = 0 THEN 0 ELSE st.depth - 1
        IN  <<[st EXCEPT !.depth = d, !.empty = FALSE],
              IF st.empty THEN <<b>> ELSE NewLine(d) \o <<b>>>>
    ELSE IF b = "," THEN <<st, <<b>> \o NewLine(st.depth)>>
    ELSE IF b = ":" THEN <<st, <<b, " ">>>>
    ELSE <<[st EXCEPT !.empty = FALSE, !.in_string = (b = Quote)],
           (IF st.empty THEN NewLine(st.depth) ELSE <<>>) \o <<b>>>>

RECURSIVE FormatBuf(_, _, _)
FormatBuf(buf, n, st) ==
    IF n > Len(buf) THEN <<>>
    ELSE LET r == FormatChar(st, buf[n])
         IN  r[2] \o FormatBuf(buf, n + 1, r[1])

PrettyPrint(body) == FormatBuf(body, 1, FormatStart)

\* the bodies the server answers with: {"a":1} and [1, 2]
BodyObject == <<"{", "\"", "a", "\"", ":", "1", "}">>
BodyArray == <<"[", "1", ",", " ", "2", "]">>
Bodies == {BodyObject, BodyArray}

NoReply == [kind |-> "none", body |-> <<>>]

(***************************************************************************)
(* String::pop (line 108) and the Tab handler's step (lines 96-99).        *)
(***************************************************************************)
\* a pop at the wrong end
PopFront(s) == IF s = <<>> THEN <<>> ELSE SubSeq(s, 2, Len(s))

Pop(s) == IF s = <<>> THEN <<>> ELSE SubSeq(s, 1, Len(s) - 1)

\* the wrap test off by one
NextWindowLate(w) == IF w + 1 > PanelCount THEN 0 ELSE w + 1

NextWindow(w) == IF w + 1 = PanelCount THEN 0 ELSE w + 1

(***************************************************************************)
(* ui(): what one draw puts on the screen (lines 120-226), as a record:    *)
(* the style of each of the five panels, the text of the URL and Response  *)
(* panels, the items of the Logs panel and the cursor.  An item is the     *)
(* decimal index, ':', ' ' and then the message as one piece.              *)
(***************************************************************************)
\* top_chunks[1] on an 80x24 terminal: margin 1, then 10% of the width
UrlPanel == [x |-> 9, y |-> 1]

\* a highlight that forgets the mode
GetStyleCyan(cw, this_window, mode) ==
    IF cw = this_window THEN "Cyan" ELSE "Default"

\* get_style, and the same test written inline for panels 0, 2, 3 and 4
GetStyle(cw, this_window, mode) ==
    IF cw = this_window
        THEN IF mode = "Normal" THEN "Cyan" ELSE "Yellow"
        ELSE "Default"

\* UnicodeWidthStr::width: every character typed here is one cell wide
Width(s) == Len(s)

\* a cursor shown only while the URL panel is the active one
CursorOfActive(mode, u, cw) ==
    IF mode = "Editing" /\ cw = 1
        THEN [shown |-> TRUE, x |-> UrlPanel.x + (Width(u) % 65536) + 1,
              y |-> UrlPanel.y + 1]
        ELSE [shown |-> FALSE, x |-> 0, y |-> 0]

\* f.set_cursor in Editing mode; Frame hides the cursor otherwise
Cursor(mode, u, cw) ==
    IF mode = "Editing"
        THEN [shown |-> TRUE, x |-> UrlPanel.x + (Width(u) % 65536) + 1,
              y |-> UrlPanel.y + 1]
        ELSE [shown |-> FALSE, x |-> 0, y |-> 0]

\* format!("{}", i) for an index
RECURSIVE Decimal(_)
Decimal(i) ==
    LET d == <<"0", "1", "2", "3", "4", "5", "6", "7", "8", "9">>[(i % 10) + 1]
    IN  IF i < 10 THEN <<d>> ELSE Decimal(i \div 10) \o <<d>>

\* items numbered from one
LogItemsFromOne(l) ==
    [i \in 1..Len(l) |-> Decimal(i) \o <<":", " ", l[i]>>]

\* logs.iter().enumerate().map(format!("{}: {}", i, m))
LogItems(l) ==
    [i \in 1..Len(l) |-> Decimal(i - 1) \o <<":", " ", l[i]>>]

Ui ==
    [style |-> [k \in 0..4 |-> GetStyle(current_window, k, input_mode)],
     url |-> url,
     response |-> response,
     logs |-> LogItems(logs),
     cursor |-> Cursor(input_mode, url, current_window)]

NoFrame ==
    [style |-> [k \in 0..4 |-> "Default"], url |-> <<>>, response |-> <<>>,
     logs |-> <<>>, cursor |-> [shown |-> FALSE, x |-> 0, y |-> 0]]

\* a session that starts on the panel count instead of a panel index
InitPastLastPanel ==
    /\ pc = "enable_raw_mode"
    /\ input_mode = "Normal"
    /\ url = <<>>
    /\ response = <<>>
    /\ logs = <<>>
    /\ current_window = PanelCount
    /\ event = "none"
    /\ target = NoTarget
    /\ reply = NoReply
    /\ nreq = 0
    /\ res = "none"
    /\ rawMode = FALSE
    /\ altScreen = FALSE
    /\ mouseCapture = FALSE
    /\ restored = <<>>
    /\ printed = FALSE
    /\ frame = NoFrame
    /\ drawn = 0

(***************************************************************************)
(* Initial state: main() not yet started; the App fields hold the values   *)
(* App::default() gives them.                                              *)
(***************************************************************************)
Init ==
    /\ pc = "enable_raw_mode"
    /\ input_mode = "Normal"
    /\ url = <<>>
    /\ response = <<>>
    /\ logs = <<>>
    /\ current_window = FirstWindow
    /\ event = "none"
    /\ target = NoTarget
    /\ reply = NoReply
    /\ nreq = 0
    /\ res = "none"
    /\ rawMode = FALSE
    /\ altScreen = FALSE
    /\ mouseCapture = FALSE
    /\ restored = <<>>
    /\ printed = FALSE
    /\ frame = NoFrame
    /\ drawn = 0

(***************************************************************************)
(* main(): terminal setup (lines 47-51).  Each `?` returns from main       *)
(* with the error, skipping everything below it.                           *)
(***************************************************************************)
EnableRawMode ==
    /\ pc = "enable_raw_mode"
    /\ rawMode' = TRUE
    /\ pc' = "enter_screen"
    /\ UNCHANGED <<app, event, net, res, altScreen, mouseCapture, restored, printed>>
    /\ UNCHANGED <<frame, drawn>>

EnableRawModeFail ==
    /\ pc = "enable_raw_mode"
    /\ pc' = "exit_err"
    /\ UNCHANGED <<app, event, net, res, term>>
    /\ UNCHANGED <<frame, drawn>>

EnterScreen ==
    /\ pc = "enter_screen"
    /\ altScreen' = TRUE
    /\ mouseCapture' = TRUE
    /\ pc' = "new_terminal"
    /\ UNCHANGED <<app, event, net, res, rawMode, restored, printed>>
    /\ UNCHANGED <<frame, drawn>>

\* execute! failed: the commands before the failing one have taken effect
EnterScreenFail ==
    /\ pc = "enter_screen"
    /\ \E a \in BOOLEAN, m \in BOOLEAN :
          /\ m => a
          /\ altScreen' = a
          /\ mouseCapture' = m
    /\ pc' = "exit_err"
    /\ UNCHANGED <<app, event, net, res, rawMode, restored, printed>>
    /\ UNCHANGED <<frame, drawn>>

NewTerminal ==
    /\ pc = "new_terminal"
    /\ pc' = "draw"
    /\ UNCHANGED <<app, event, net, res, term>>
    /\ UNCHANGED <<frame, drawn>>

NewTerminalFail ==
    /\ pc = "new_terminal"
    /\ pc' = "exit_err"
    /\ UNCHANGED <<app, event, net, res, term>>
    /\ UNCHANGED <<frame, drawn>>

(***************************************************************************)
(* run_app(): one iteration of the loop (lines 74-117).  The loop is at    *)
(* "draw" before terminal.draw, at "read" before event::read, and at       *)
(* "await" while get_request is in flight.                                 *)
(***************************************************************************)
\* terminal.draw(|f| ui(f, &app)) succeeded
Draw ==
    /\ pc = "draw"
    /\ frame' = Ui
    /\ drawn' = drawn + 1
    /\ pc' = "read"
    /\ UNCHANGED <<app, event, net, res, term>>

\* terminal.draw(..)? returns the error from run_app
DrawFail ==
    /\ pc = "draw"
    /\ res' = "err"
    /\ pc' = "disable_raw_mode"
    /\ UNCHANGED <<app, event, net, term>>
    /\ UNCHANGED <<frame, drawn>>

\* event::read()? returns the error from run_app
ReadFail ==
    /\ pc = "read"
    /\ event' = "none"
    /\ res' = "err"
    /\ pc' = "disable_raw_mode"
    /\ UNCHANGED <<app, net, term>>
    /\ drawn' = 0
    /\ UNCHANGED frame

\* an event that is no key and goes straight to the next read
NonKeyEventSkipsDraw ==
    /\ pc = "read"
    /\ event' = "Resize"
    /\ pc' = "read"
    /\ UNCHANGED <<app, net, res, term>>
    /\ drawn' = 0
    /\ UNCHANGED frame

\* an event that is no key (mouse, resize): `if let Event::Key` does not match
NonKeyEvent ==
    /\ pc = "read"
    /\ event' = "Resize"
    /\ pc' = "draw"
    /\ UNCHANGED <<app, net, res, term>>
    /\ drawn' = 0
    /\ UNCHANGED frame

NormalI ==
    /\ pc = "read"
    /\ input_mode = "Normal"
    /\ event' = "i"
    /\ input_mode' = "Editing"
    /\ pc' = "draw"
    /\ UNCHANGED <<url, response, logs, current_window, net, res, term>>
    /\ drawn' = 0
    /\ UNCHANGED frame

\* 'q' that sets the result but stays in the loop
NormalQStays ==
    /\ pc = "read"
    /\ input_mode = "Normal"
    /\ event' = "q"
    /\ res' = "ok"
    /\ pc' = "draw"
    /\ UNCHANGED <<app, net, term>>
    /\ drawn' = 0
    /\ UNCHANGED frame

NormalQ ==
    /\ pc = "read"
    /\ input_mode = "Normal"
    /\ event' = "q"
    /\ res' = "ok"
    /\ pc' = "disable_raw_mode"
    /\ UNCHANGED <<app, net, term>>
    /\ drawn' = 0
    /\ UNCHANGED frame

\* an Enter that starts the log afresh
NormalEnterResetsLogs ==
    /\ pc = "read"
    /\ input_mode = "Normal"
    /\ nreq < MaxRequests
    /\ event' = "Enter"
    /\ logs' = <<LogStart>>
    /\ target' = NewUrl(url)
    /\ nreq' = nreq + 1
    /\ reply' = NoReply
    /\ pc' = "await"
    /\ UNCHANGED <<input_mode, url, response, current_window, res, term>>
    /\ drawn' = 0
    /\ UNCHANGED frame

\* an Enter that draws the start entry before it awaits
NormalEnterDraws ==
    /\ pc = "read"
    /\ input_mode = "Normal"
    /\ nreq < MaxRequests
    /\ event' = "Enter"
    /\ logs' = Append(logs, LogStart)
    /\ target' = NewUrl(url)
    /\ nreq' = nreq + 1
    /\ reply' = NoReply
    /\ pc' = "await"
    /\ UNCHANGED <<input_mode, url, response, current_window, res, term>>
    /\ drawn' = 1
    /\ frame' = [Ui EXCEPT !.logs = LogItems(logs')]

\* an Enter that keeps the normalized target in url
NormalEnterWritesBack ==
    /\ pc = "read"
    /\ input_mode = "Normal"
    /\ nreq < MaxRequests
    /\ event' = "Enter"
    /\ logs' = Append(logs, LogStart)
    /\ target' = NewUrl(url)
    /\ url' = NewUrl(url)
    /\ nreq' = nreq + 1
    /\ reply' = NoReply
    /\ pc' = "await"
    /\ UNCHANGED <<input_mode, response, current_window, res, term>>
    /\ drawn' = 0
    /\ UNCHANGED frame

\* Enter, up to the await of the GET (lines 87-88, 240-247)
NormalEnter ==
    /\ pc = "read"
    /\ input_mode = "Normal"
    /\ nreq < MaxRequests
    /\ event' = "Enter"
    /\ logs' = Append(logs, LogStart)
    /\ target' = NewUrl(url)
    /\ nreq' = nreq + 1
    /\ reply' = NoReply
    /\ pc' = "await"
    /\ UNCHANGED <<input_mode, url, response, current_window, res, term>>
    /\ drawn' = 0
    /\ UNCHANGED frame

\* a response that is extended instead of replaced
RequestOkAppends ==
    /\ pc = "await"
    /\ \E body \in Bodies :
          /\ reply' = [kind |-> "ok", body |-> body]
          /\ response' = response \o PrettyPrint(body)
    /\ logs' = Append(logs, LogDone)
    /\ target' = NoTarget
    /\ pc' = "draw"
    /\ UNCHANGED <<input_mode, url, current_window, event, nreq, res, term>>
    /\ UNCHANGED <<frame, drawn>>

\* the GET came back with a body and the formatter returned Ok (lines 89-93)
RequestOk ==
    /\ pc = "await"
    /\ \E body \in Bodies :
          /\ reply' = [kind |-> "ok", body |-> body]
          /\ response' = PrettyPrint(body)
    /\ logs' = Append(logs, LogDone)
    /\ target' = NoTarget
    /\ pc' = "draw"
    /\ UNCHANGED <<input_mode, url, current_window, event, nreq, res, term>>
    /\ UNCHANGED <<frame, drawn>>

\* a transport error that is logged and survived
RequestTransportErrSurvived ==
    /\ pc = "await"
    /\ reply' = [kind |-> "transport_err", body |-> <<>>]
    /\ logs' = Append(logs, LogDone)
    /\ target' = NoTarget
    /\ pc' = "draw"
    /\ UNCHANGED <<input_mode, url, response, current_window, event, nreq, res, term>>
    /\ UNCHANGED <<frame, drawn>>

\* reqwest returned an error: get_request returns Err, line 91 panics
RequestTransportErr ==
    /\ pc = "await"
    /\ reply' = [kind |-> "transport_err", body |-> <<>>]
    /\ target' = NoTarget
    /\ pc' = "panicked"
    /\ UNCHANGED <<app, event, nreq, res, term>>
    /\ UNCHANGED <<frame, drawn>>

\* the formatter returned an error: line 252 panics
RequestFormatErr ==
    /\ pc = "await"
    /\ \E body \in Bodies : reply' = [kind |-> "format_err", body |-> body]
    /\ target' = NoTarget
    /\ pc' = "panicked"
    /\ UNCHANGED <<app, event, nreq, res, term>>
    /\ UNCHANGED <<frame, drawn>>

NormalTab ==
    /\ pc = "read"
    /\ input_mode = "Normal"
    /\ event' = "Tab"
    /\ current_window' = NextWindow(current_window)
    /\ pc' = "draw"
    /\ UNCHANGED <<input_mode, url, response, logs, net, res, term>>
    /\ drawn' = 0
    /\ UNCHANGED frame

\* a Normal mode in which Esc quits
NormalOtherEscQuits ==
    /\ pc = "read"
    /\ input_mode = "Normal"
    /\ event' \in (SpecialKeys \cup FreeChars) \ {"i", "q", "Enter", "Tab"}
    /\ IF event' = "Esc"
          THEN res' = "ok" /\ pc' = "disable_raw_mode"
          ELSE res' = res /\ pc' = "draw"
    /\ UNCHANGED <<app, net, term>>
    /\ drawn' = 0
    /\ UNCHANGED frame

\* a Normal mode in which Backspace still edits url
NormalOtherEdits ==
    /\ pc = "read"
    /\ input_mode = "Normal"
    /\ event' \in (SpecialKeys \cup FreeChars) \ {"i", "q", "Enter", "Tab"}
    /\ url' = IF event' = "Backspace" THEN Pop(url) ELSE url
    /\ pc' = "draw"
    /\ UNCHANGED <<input_mode, response, logs, current_window, net, res, term>>
    /\ drawn' = 0
    /\ UNCHANGED frame

\* the `_ => {}` arm of Normal mode (line 101)
NormalOther ==
    /\ pc = "read"
    /\ input_mode = "Normal"
    /\ event' \in (SpecialKeys \cup FreeChars) \ {"i", "q", "Enter", "Tab"}
    /\ pc' = "draw"
    /\ UNCHANGED <<app, net, res, term>>
    /\ drawn' = 0
    /\ UNCHANGED frame

\* an Editing mode in which 'q' still quits
EditingCharQuits ==
    /\ pc = "read"
    /\ input_mode = "Editing"
    /\ \E c \in Chars :
          /\ Typable(url, c)
          /\ event' = c
          /\ IF c = "q"
                THEN res' = "ok" /\ pc' = "disable_raw_mode" /\ url' = url
                ELSE res' = res /\ pc' = "draw" /\ url' = Append(url, c)
    /\ UNCHANGED <<input_mode, response, logs, current_window, net, term>>
    /\ drawn' = 0
    /\ UNCHANGED frame

EditingChar ==
    /\ pc = "read"
    /\ input_mode = "Editing"
    /\ \E c \in Chars :
          /\ Typable(url, c)
          /\ event' = c
          /\ url' = Append(url, c)
    /\ pc' = "draw"
    /\ UNCHANGED <<input_mode, response, logs, current_window, net, res, term>>
    /\ drawn' = 0
    /\ UNCHANGED frame

EditingBackspace ==
    /\ pc = "read"
    /\ input_mode = "Editing"
    /\ event' = "Backspace"
    /\ url' = Pop(url)
    /\ pc' = "draw"
    /\ UNCHANGED <<input_mode, response, logs, current_window, net, res, term>>
    /\ drawn' = 0
    /\ UNCHANGED frame

\* an Esc that needs a url to leave Editing mode
EditingEscNeedsText ==
    /\ pc = "read"
    /\ input_mode = "Editing"
    /\ url # <<>>
    /\ event' = "Esc"
    /\ input_mode' = "Normal"
    /\ pc' = "draw"
    /\ UNCHANGED <<url, response, logs, current_window, net, res, term>>
    /\ drawn' = 0
    /\ UNCHANGED frame

EditingEsc ==
    /\ pc = "read"
    /\ input_mode = "Editing"
    /\ event' = "Esc"
    /\ input_mode' = "Normal"
    /\ pc' = "draw"
    /\ UNCHANGED <<url, response, logs, current_window, net, res, term>>
    /\ drawn' = 0
    /\ UNCHANGED frame

\* an Editing mode that Enter leaves
EditingOtherLeaves ==
    /\ pc = "read"
    /\ input_mode = "Editing"
    /\ event' \in SpecialKeys \ {"Backspace", "Esc"}
    /\ input_mode' = IF event' = "Enter" THEN "Normal" ELSE input_mode
    /\ pc' = "draw"
    /\ UNCHANGED <<url, response, logs, current_window, net, res, term>>
    /\ drawn' = 0
    /\ UNCHANGED frame

\* the `_ => {}` arm of Editing mode (line 113)
EditingOther ==
    /\ pc = "read"
    /\ input_mode = "Editing"
    /\ event' \in SpecialKeys \ {"Backspace", "Esc"}
    /\ pc' = "draw"
    /\ UNCHANGED <<app, net, res, term>>
    /\ drawn' = 0
    /\ UNCHANGED frame

(***************************************************************************)
(* main(): terminal restoration and the report of run_app's error          *)
(* (lines 58-70).                                                          *)
(***************************************************************************)
DisableRawMode ==
    /\ pc = "disable_raw_mode"
    /\ rawMode' = FALSE
    /\ restored' = Append(restored, "disable_raw_mode")
    /\ pc' = "leave_screen"
    /\ UNCHANGED <<app, event, net, res, altScreen, mouseCapture, printed>>
    /\ UNCHANGED <<frame, drawn>>

DisableRawModeFail ==
    /\ pc = "disable_raw_mode"
    /\ pc' = "exit_err"
    /\ UNCHANGED <<app, event, net, res, term>>
    /\ UNCHANGED <<frame, drawn>>

LeaveScreen ==
    /\ pc = "leave_screen"
    /\ altScreen' = FALSE
    /\ mouseCapture' = FALSE
    /\ restored' = restored \o <<"LeaveAlternateScreen", "DisableMouseCapture">>
    /\ pc' = "show_cursor"
    /\ UNCHANGED <<app, event, net, res, rawMode, printed>>
    /\ UNCHANGED <<frame, drawn>>

\* execute! failed: the commands before the failing one have taken effect
LeaveScreenFail ==
    /\ pc = "leave_screen"
    /\ \/ UNCHANGED <<altScreen, mouseCapture, restored>>
       \/ /\ altScreen' = FALSE
          /\ restored' = Append(restored, "LeaveAlternateScreen")
          /\ UNCHANGED mouseCapture
    /\ pc' = "exit_err"
    /\ UNCHANGED <<app, event, net, res, rawMode, printed>>
    /\ UNCHANGED <<frame, drawn>>

ShowCursor ==
    /\ pc = "show_cursor"
    /\ restored' = Append(restored, "show_cursor")
    /\ pc' = "report"
    /\ UNCHANGED <<app, event, net, res, rawMode, altScreen, mouseCapture, printed>>
    /\ UNCHANGED <<frame, drawn>>

ShowCursorFail ==
    /\ pc = "show_cursor"
    /\ pc' = "exit_err"
    /\ UNCHANGED <<app, event, net, res, term>>
    /\ UNCHANGED <<frame, drawn>>

\* `if let Err(err) = res { println!(..) }`, then Ok(())
Report ==
    /\ pc = "report"
    /\ printed' = (res = "err")
    /\ pc' = "exit_ok"
    /\ UNCHANGED <<app, event, net, res, rawMode, altScreen, mouseCapture, restored>>
    /\ UNCHANGED <<frame, drawn>>

Next ==
    \/ EnableRawMode \/ EnableRawModeFail
    \/ EnterScreen \/ EnterScreenFail
    \/ NewTerminal \/ NewTerminalFail
    \/ Draw \/ DrawFail
    \/ ReadFail \/ NonKeyEvent
    \/ NormalI \/ NormalQ \/ NormalEnter \/ NormalTab \/ NormalOther
    \/ RequestOk \/ RequestTransportErr \/ RequestFormatErr
    \/ EditingChar \/ EditingBackspace \/ EditingEsc \/ EditingOther
    \/ DisableRawMode \/ DisableRawModeFail
    \/ LeaveScreen \/ LeaveScreenFail
    \/ ShowCursor \/ ShowCursorFail
    \/ Report

Spec == Init /\ [][Next]_vars

(***************************************************************************)
(* Vocabulary of the properties.                                           *)
(***************************************************************************)
Keys == SpecialKeys \cup Chars
InLoop == {"draw", "read", "await"}
Ended == {"exit_ok", "exit_err", "panicked"}
AfterLoop == {"disable_raw_mode", "leave_screen", "show_cursor", "report"} \cup Ended
FullRestoration ==
    <<"disable_raw_mode", "LeaveAlternateScreen", "DisableMouseCapture", "show_cursor">>

\* this step is event::read() returning the key k, and its handler
KeyRead(k) == pc = "read" /\ pc' # "read" /\ event' = k

\* this step handles some key
KeyStep == pc = "read" /\ pc' # "read" /\ event' \in Keys

\* s is t without its last element
IsFront(s, t) == Len(t) = Len(s) + 1 /\ \A k \in 1..Len(s) : s[k] = t[k]

RECURSIVE Tabs(_, _)
Tabs(n, w) == IF n = 0 THEN w ELSE Tabs(n - 1, NextWindow(w))

\* the pretty-printed forms of the two bodies, written out
PrettyObject == <<"{", "\n", " ", " ", "\"", "a", "\"", ":", " ", "1", "\n", "}">>
PrettyArray == <<"[", "\n", " ", " ", "1", ",", "\n", " ", " ", "2", "\n", "]">>
Pretty(body) == IF body = BodyObject THEN PrettyObject ELSE PrettyArray

\* url carries a scheme prefix
HasScheme(u) == StartsWith(u, HttpScheme) \/ StartsWith(u, Https)

(***************************************************************************)
(* C1: the mode starts as Normal, is always Normal or Editing, and changes *)
(* only by 'i' in Normal mode (to Editing) and Esc in Editing mode (to     *)
(* Normal); both keys always make their transition, and every other step   *)
(* leaves the mode as it was.                                              *)
(***************************************************************************)
C1_ModeTransitions ==
    /\ input_mode = "Normal"
    /\ [](input_mode \in {"Normal", "Editing"})
    /\ [][/\ (KeyRead("i") /\ input_mode = "Normal") => input_mode' = "Editing"
          /\ (KeyRead("Esc") /\ input_mode = "Editing") => input_mode' = "Normal"
          /\ input_mode' # input_mode =>
                \/ KeyRead("i") /\ input_mode = "Normal"
                \/ KeyRead("Esc") /\ input_mode = "Editing"]_vars

\* 'x' was typed, Esc pressed and 'i' pressed again
C1_Witness ==
    input_mode = "Editing" /\ event = "i" /\ url = <<"x">> /\ pc = "draw"

(***************************************************************************)
(* C2: in Editing mode a character key pushes that character at the end    *)
(* of url, Backspace removes the last character of url, Backspace on the   *)
(* empty url leaves it empty and the loop running, and no other step       *)
(* changes url.                                                            *)
(***************************************************************************)
C2_UrlIsStack ==
    [][/\ (KeyStep /\ input_mode = "Editing" /\ event' \in Chars) =>
              url' = url \o <<event'>>
       /\ (KeyRead("Backspace") /\ input_mode = "Editing") =>
              /\ pc' = "draw"
              /\ IF url = <<>> THEN url' = <<>> ELSE IsFront(url', url)
       /\ url' # url =>
              /\ KeyStep
              /\ input_mode = "Editing"
              /\ event' \in Chars \cup {"Backspace"}]_vars

\* "ex" typed, then the 'x' removed
C2_Witness ==
    input_mode = "Editing" /\ event = "Backspace" /\ url = <<"e">> /\ pc = "draw"

(***************************************************************************)
(* C3: current_window is always in 0..PanelCount-1; Tab in Normal mode     *)
(* advances it by one modulo PanelCount and nothing else changes it; from  *)
(* every reachable value PanelCount Tab steps, and no fewer, lead back.    *)
(***************************************************************************)
C3_PanelCycle ==
    /\ [](/\ current_window \in 0..(PanelCount - 1)
          /\ Tabs(PanelCount, current_window) = current_window
          /\ \A n \in 1..(PanelCount - 1) : Tabs(n, current_window) # current_window)
    /\ [][/\ (KeyRead("Tab") /\ input_mode = "Normal") =>
                current_window' = (current_window + 1) % PanelCount
          /\ current_window' # current_window =>
                KeyRead("Tab") /\ input_mode = "Normal"]_vars

\* Tab has wrapped from the last panel to the first
C3_Witness == current_window = 0 /\ event = "Tab" /\ pc = "draw"

(***************************************************************************)
(* C4: the target of the request in flight is url itself when url carries  *)
(* a scheme prefix ("http://" or "https://"), and "https://" followed by   *)
(* url otherwise.                                                          *)
(***************************************************************************)
C4_TargetNormalized ==
    pc = "await" => target = IF HasScheme(url) THEN url ELSE Https \o url

(***************************************************************************)
(* C5: 'q' in Normal mode ends the loop with Ok and with no restoration    *)
(* command performed yet; once the loop is left it is never entered again  *)
(* (no further read, no further draw); the restoration commands run in     *)
(* order, each at most once; and when main returns after 'q' all four      *)
(* have run exactly once.                                                  *)
(***************************************************************************)
C5_QuitRestoresOnce ==
    /\ [][(KeyRead("q") /\ input_mode = "Normal") =>
              /\ pc' = "disable_raw_mode"
              /\ res' = "ok"
              /\ restored = <<>> /\ restored' = <<>>
              /\ UNCHANGED app]_vars
    /\ [][(pc \in AfterLoop) => (pc' \in AfterLoop)]_vars
    /\ [](/\ Len(restored) <= Len(FullRestoration)
          /\ restored = SubSeq(FullRestoration, 1, Len(restored)))
    /\ []((pc = "exit_ok" /\ res = "ok") =>
              /\ restored = FullRestoration
              /\ ~rawMode /\ ~altScreen /\ ~mouseCapture)

\* quit after editing, panel cycling and two requests
C5_Witness ==
    /\ pc = "exit_ok" /\ res = "ok" /\ event = "q"
    /\ nreq = 2 /\ url # <<>> /\ current_window = 0

(***************************************************************************)
(* C6: whenever the process has ended, raw mode, the alternate screen and  *)
(* mouse capture are all released, and the error's debug text has been     *)
(* printed only after the whole restoration.                               *)
(***************************************************************************)
C6_ReleasedOnEveryExit ==
    /\ pc \in Ended => ~rawMode /\ ~altScreen /\ ~mouseCapture
    /\ printed => restored = FullRestoration

(***************************************************************************)
(* C7: a key that is not listed for the current mode leaves url, response, *)
(* logs, the mode and current_window unchanged and the loop running.       *)
(***************************************************************************)
Unlisted(mode, k) ==
    /\ k \in Keys
    /\ mode = "Normal" => k \notin {"i", "q", "Enter", "Tab"}
    /\ mode = "Editing" => k \notin Chars \cup {"Backspace", "Esc"}

C7_UnlistedKeysNoOp ==
    [][(KeyStep /\ Unlisted(input_mode, event')) =>
           /\ UNCHANGED <<app, net, res, term>>
           /\ pc' = "draw"]_vars

\* Backspace pressed in Normal mode with a url typed before
C7_Witness ==
    /\ input_mode = "Normal" /\ event = "Backspace" /\ pc = "draw"
    /\ url = <<"e", "x">>

(***************************************************************************)
(* C8: Enter in Normal mode appends "Fetching results..." to logs and      *)
(* issues one GET, leaving response alone; the successful return sets      *)
(* response to the pretty-printed body alone, then appends "Done", and     *)
(* issues no further GET; so outside a request logs holds two entries per  *)
(* GET issued.                                                             *)
(***************************************************************************)
C8_SuccessfulRequest ==
    /\ [][(KeyRead("Enter") /\ input_mode = "Normal") =>
              /\ logs' = logs \o <<LogStart>>
              /\ nreq' = nreq + 1
              /\ response' = response
              /\ pc' = "await"]_vars
    /\ [][(pc = "await" /\ reply'.kind = "ok") =>
              /\ response' = Pretty(reply'.body)
              /\ logs' = logs \o <<LogDone>>
              /\ nreq' = nreq
              /\ pc' = "draw"]_vars
    /\ [][nreq' # nreq => KeyRead("Enter") /\ input_mode = "Normal"]_vars
    /\ [](pc \in {"draw", "read"} => Len(logs) = 2 * nreq)

\* the second successful request has replaced the response of the first
C8_Witness ==
    /\ pc = "draw" /\ nreq = 2 /\ reply.kind = "ok"
    /\ response = PrettyObject
    /\ logs = <<LogStart, LogDone, LogStart, LogDone>>

(***************************************************************************)
(* C9: a request that fails, in transport or in formatting, ends the       *)
(* process by a panic: response and logs stay as they were (no "Done"),    *)
(* nothing happens after the panic, and the loop never runs with a failed  *)
(* reply.                                                                  *)
(***************************************************************************)
Failed == {"transport_err", "format_err"}

C9_FailedRequestFatal ==
    /\ [][(pc = "await" /\ reply'.kind \in Failed) =>
              /\ pc' = "panicked"
              /\ UNCHANGED <<app, event, nreq, res, term>>]_vars
    /\ [][pc # "panicked"]_vars
    /\ [](reply.kind \in Failed =>
              /\ pc = "panicked"
              /\ logs[Len(logs)] = LogStart)

\* the second request failed in formatting, after a first that succeeded
C9_Witness ==
    /\ pc = "panicked" /\ reply.kind = "format_err" /\ nreq = 2
    /\ response # <<>>

(***************************************************************************)
(* C10: in Editing mode no key ends the loop, issues a request or changes  *)
(* response, logs or current_window; 'q' and 'i' are appended to url and   *)
(* leave the mode Editing.                                                 *)
(***************************************************************************)
C10_EditingKeysOnlyEdit ==
    [][(KeyStep /\ input_mode = "Editing") =>
           /\ pc' = "draw"
           /\ UNCHANGED <<response, logs, current_window, net, res, term>>
           /\ event' \in {"q", "i"} =>
                 url' = url \o <<event'>> /\ input_mode' = "Editing"]_vars

\* 'i' and 'q' typed into url
C10_Witness ==
    input_mode = "Editing" /\ event = "q" /\ url = <<"i", "q">> /\ pc = "draw"

(***************************************************************************)
(* More vocabulary: prefixes, the shape of logs, what a frame shows.       *)
(***************************************************************************)
IsPrefix(s, t) == Len(s) <= Len(t) /\ \A k \in 1..Len(s) : s[k] = t[k]

\* start and done entries in pairs
LogsPaired(l) ==
    /\ Len(l) % 2 = 0
    /\ \A k \in 1..Len(l) : l[k] = IF k % 2 = 1 THEN LogStart ELSE LogDone

Digit == <<"0", "1", "2", "3", "4", "5", "6", "7", "8", "9">>

\* the highlight the panel k is to have
Highlight(k) ==
    IF k # current_window THEN "Default"
    ELSE IF input_mode = "Normal" THEN "Cyan" ELSE "Yellow"

\* the frame f shows the session as it is now
ShowsNow(f) ==
    /\ f.url = url
    /\ f.response = response
    /\ Len(f.logs) = Len(logs)
    /\ f.style[current_window] # "Default"
    /\ f.cursor.shown = (input_mode = "Editing")

(***************************************************************************)
(* C11: every step leaves the old logs as a prefix of the new logs, and    *)
(* logs grows only in the Enter handler of Normal mode (its start entry    *)
(* at the key, its done entry when the request returns).                   *)
(***************************************************************************)
C11_LogsAppendOnly ==
    /\ [][IsPrefix(logs, logs')]_vars
    /\ [][logs' # logs =>
              \/ KeyRead("Enter") /\ input_mode = "Normal"
              \/ pc = "await" /\ event = "Enter" /\ input_mode = "Normal"]_vars

\* the second request has extended the log of the first
C11_Witness ==
    logs = <<LogStart, LogDone, LogStart>> /\ pc = "await"

(***************************************************************************)
(* C12: run_app's result becomes Ok only in the step that reads 'q' in     *)
(* Normal mode, and whenever it is Ok the last key read is 'q' and the     *)
(* mode is Normal.                                                         *)
(***************************************************************************)
C12_OkOnlyByQuit ==
    /\ [][(res' = "ok" /\ res # "ok") =>
              KeyRead("q") /\ input_mode = "Normal"]_vars
    /\ [](res = "ok" => event = "q" /\ input_mode = "Normal" /\ pc \in AfterLoop)

\* the loop has returned Ok after a stay in Editing mode
C12_Witness ==
    res = "ok" /\ pc = "disable_raw_mode" /\ url = <<"q">>

(***************************************************************************)
(* C13: the session starts with url, response and logs empty, in Normal    *)
(* mode and on a valid panel; it is still so while no event has been       *)
(* read (event is "none" and run_app has no result); the first event is    *)
(* read only after a draw, and that draw shows the initial session.        *)
(***************************************************************************)
C13_InitialSession ==
    /\ url = <<>> /\ response = <<>> /\ logs = <<>>
    /\ input_mode = "Normal"
    /\ current_window \in 0..(PanelCount - 1)
    /\ []((event = "none" /\ res = "none") =>
              /\ url = <<>> /\ response = <<>> /\ logs = <<>>
              /\ input_mode = "Normal"
              /\ current_window \in 0..(PanelCount - 1))
    /\ []((event = "none" /\ pc = "read") =>
              /\ frame.url = <<>> /\ frame.response = <<>> /\ frame.logs = <<>>
              /\ ~frame.cursor.shown
              /\ \A k \in 0..(PanelCount - 1) :
                    frame.style[k] = IF k = current_window THEN "Cyan" ELSE "Default")
    /\ [][(event = "none" /\ res = "none" /\ event' # "none") =>
              pc = "read" /\ drawn = 1]_vars

\* the first frame is on the screen and no event has been read
C13_Witness ==
    pc = "read" /\ event = "none" /\ frame.style[FirstWindow] = "Cyan"

(***************************************************************************)
(* C14: draw and read alternate: an event is read only with exactly one    *)
(* draw since the previous read (or since the start), the frame on the     *)
(* screen at a read shows the session as it is, only terminal.draw draws,  *)
(* and nothing is drawn once 'q' has been handled.                         *)
(***************************************************************************)
C14_DrawReadAlternate ==
    /\ [](drawn \in {0, 1})
    /\ [](pc = "read" => drawn = 1 /\ ShowsNow(frame))
    /\ [][(pc = "read" /\ pc' # "read") => drawn = 1 /\ drawn' = 0]_vars
    /\ [][event' # event => pc = "read" /\ drawn = 1]_vars
    /\ [][(drawn' > drawn \/ frame' # frame) => pc = "draw" /\ pc' = "read"]_vars
    /\ [][res = "ok" => UNCHANGED <<frame, drawn>>]_vars

\* a key that changed nothing has been followed by a draw
C14_Witness ==
    pc = "read" /\ event = "F1" /\ drawn = 1 /\ nreq = 1

(***************************************************************************)
(* C15: while the request is in flight nothing is drawn and no event is    *)
(* read; at every draw and every read logs is made of start/done pairs;    *)
(* and no frame shows a start entry as its last log item.                  *)
(***************************************************************************)
C15_SuspendedInFlight ==
    /\ [][pc = "await" => UNCHANGED <<frame, drawn, event>>]_vars
    /\ [](pc \in {"draw", "read"} => LogsPaired(logs))
    /\ [](Len(frame.logs) % 2 = 0)
    /\ [](\A k \in 1..Len(frame.logs) :
              frame.logs[k][Len(frame.logs[k])] =
                  IF k % 2 = 1 THEN LogStart ELSE LogDone)

\* the second request is in flight; the screen still shows the first pair
C15_Witness ==
    pc = "await" /\ Len(logs) = 3 /\ Len(frame.logs) = 2

(***************************************************************************)
(* C16: what ui computes, and what the frame on the screen at a read       *)
(* shows, highlights exactly the panel current_window, Cyan in Normal      *)
(* mode and Yellow in Editing mode, and leaves the other four at the       *)
(* default style.                                                          *)
(***************************************************************************)
C16_OnePanelHighlighted ==
    /\ \A k \in 0..4 : Ui.style[k] = Highlight(k)
    /\ Cardinality({k \in 0..4 : Ui.style[k] # "Default"}) = 1
    /\ pc = "read" => \A k \in 0..4 : frame.style[k] = Highlight(k)
    /\ frame # NoFrame =>
          Cardinality({k \in 0..4 : frame.style[k] # "Default"}) = 1

\* the Logs panel drawn highlighted in Editing mode
C16_Witness ==
    pc = "read" /\ frame.style[4] = "Yellow" /\ frame.style[1] = "Default"

(***************************************************************************)
(* C17: the frame on the screen at a read shows the cursor exactly in      *)
(* Editing mode; a shown cursor is one cell after the url text in the URL  *)
(* panel and one row below the panel's top, whichever panel is active.     *)
(***************************************************************************)
C17_CursorInEditing ==
    /\ pc = "read" => frame.cursor.shown = (input_mode = "Editing")
    /\ frame.cursor.shown =>
          /\ frame.cursor.x = UrlPanel.x + Len(frame.url) + 1
          /\ frame.cursor.y = UrlPanel.y + 1

\* the cursor drawn after "ex" while the Response panel is the active one
C17_Witness ==
    /\ pc = "read" /\ input_mode = "Editing" /\ current_window = 3
    /\ url = <<"e", "x">>
    /\ frame.cursor = [shown |-> TRUE, x |-> UrlPanel.x + 3, y |-> UrlPanel.y + 1]

(***************************************************************************)
(* C18: the Enter handler of Normal mode, from the key to the return of    *)
(* the request, leaves url, the mode and current_window as they were; the  *)
(* target in flight is url or "https://" before url, and url changes only  *)
(* in Editing mode, so the prefix is never written into url.               *)
(***************************************************************************)
C18_SubmitKeepsUrl ==
    /\ [][((KeyRead("Enter") /\ input_mode = "Normal") \/ pc = "await") =>
              UNCHANGED <<url, input_mode, current_window>>]_vars
    /\ [](pc = "await" => target \in {url, Https \o url})
    /\ [][url' # url => input_mode = "Editing"]_vars

\* the second submission of example.com sends the same target as the first
C18_Witness ==
    /\ pc = "await" /\ nreq = 2
    /\ url = ExampleCom /\ target = Https \o ExampleCom

(***************************************************************************)
(* C19: at every read, Esc can be read and leaves the loop at its next     *)
(* draw in Normal mode; that draw can succeed; and at every read in        *)
(* Normal mode 'q' can be read and ends the loop with Ok.                  *)
(***************************************************************************)
C19_QuitInTwoKeys ==
    /\ [](pc = "read" => ENABLED (Next /\ KeyRead("Esc")))
    /\ [](pc = "draw" => ENABLED (Next /\ pc' = "read"))
    /\ []((pc = "read" /\ input_mode = "Normal") => ENABLED (Next /\ KeyRead("q")))
    /\ [][KeyRead("Esc") =>
              /\ pc' = "draw"
              /\ input_mode' = "Normal"
              /\ res' = res]_vars
    /\ [][(pc = "draw" /\ pc' = "read") => UNCHANGED <<input_mode, res>>]_vars
    /\ [][(KeyRead("q") /\ input_mode = "Normal") =>
              res' = "ok" /\ pc' \in AfterLoop]_vars

\* quit by Esc and 'q' out of Editing mode with an empty url
C19_Witness ==
    res = "ok" /\ url = <<>> /\ nreq = 1 /\ current_window = 4 /\ pc = "exit_ok"

(***************************************************************************)
(* C20: what ui computes, and what the frame on the screen at a read       *)
(* shows, has one log item per entry of logs, in order, the item of the    *)
(* entry at position i (from 0) being i in decimal, ": " and the entry.    *)
(***************************************************************************)
C20_LogItems ==
    /\ Len(Ui.logs) = Len(logs)
    /\ \A i \in 1..Len(logs) : Ui.logs[i] = <<Digit[i], ":", " ", logs[i]>>
    /\ pc = "read" =>
          /\ Len(frame.logs) = Len(logs)
          /\ \A i \in 1..Len(logs) : frame.logs[i] = <<Digit[i], ":", " ", logs[i]>>

\* four entries drawn
C20_Witness ==
    /\ pc = "read"
    /\ frame.logs = << <<"0", ":", " ", LogStart>>, <<"1", ":", " ", LogDone>>,
                       <<"2", ":", " ", LogStart>>, <<"3", ":", " ", LogDone>> >>

====
